---- MODULE Spec2Model ----
(***************************************************************************)
(* Model of the transformation agent's expression classes (classes.py) and *)
(* of its four tool operations against the transformation backend          *)
(* (tools.py).                                                             *)
(*                                                                         *)
(* Encoding of Python values:                                              *)
(*   - an Optional value is a sequence of length 0 (None) or 1 (the value) *)
(*   - a dict is a function whose domain is its set of string keys         *)
(*   - a list is a sequence                                                *)
(*   - a string that the code formats or inspects is a sequence of         *)
(*     one-character strings; an opaque string is a TLA+ string            *)
(***************************************************************************)
EXTENDS Integers, Sequences, FiniteSets, TLC

VARIABLES
    raw,            \* SpecCtor: keyword data handed to a class constructor
    flavor,         \* SpecCtor: "filter" (LogicalExpression) or "replace" (ReplaceLogicalExpression)
    built,          \* SpecCtor: None while pending, else Some(outcome of the constructor)
    toolArgs,       \* SpecSer: arguments of add_filter_action_tool / add_replace_action_tool
    stepOut,        \* SpecSer: None while pending, else Some(outcome of building the step object)
    response_data,  \* SpecPivot: body of a backend response
    checkFlag,      \* SpecPivot: check_last_step_for_error
    returned,       \* SpecPivot: None while pending, else Some(outcome of change_response_data)
    serverSteps,    \* Spec: the step list held by the backend
    pc,             \* Spec: per caller, position inside its tool operation
    op,             \* Spec: per caller, the operation and its arguments
    local,          \* Spec: per caller, the operation's local variables
    wire,           \* Spec: the HTTP exchanges of the operations not yet returned, in order
    result          \* Spec: per caller, how the operation ended

ctorVars  == <<raw, flavor, built>>
serVars   == <<toolArgs, stepOut>>
pivotVars == <<response_data, checkFlag, returned>>
toolVars  == <<serverSteps, pc, op, local, wire, result>>
vars == <<raw, flavor, built, toolArgs, stepOut, response_data, checkFlag, returned,
          serverSteps, pc, op, local, wire, result>>

None == <<>>
Some(x) == <<x>>
IsNone(o) == o = <<>>

\* dict helpers
Has(d, k) == k \in DOMAIN d
Get(d, k) == IF Has(d, k) THEN d[k] ELSE None
Del(d, k) == [x \in (DOMAIN d) \ {k} |-> d[x]]
Put(d, k, v) == [x \in (DOMAIN d) \cup {k} |-> IF x = k THEN v ELSE d[x]]
EmptyDict == [x \in {} |-> None]

(***************************************************************************)
(* classes.py                                                              *)
(***************************************************************************)

Operators == {"equal to", "not equal to", "greater than", "less than",
              "greater than or equal to", "less than or equal to",
              "contains", "does not contain", "starts with", "does not start with",
              "ends with", "does not end with"}

Ok(x) == [ok |-> TRUE, obj |-> x]
Err(m) == [ok |-> FALSE, error |-> m]

\* ComparisonValue(**data): three optional fields, each defaulting to None.
ComparisonValue(data) ==
    [input |-> Get(data, "input"),
     datetime |-> Get(data, "datetime"),
     column_name |-> Get(data, "column_name")]

\* Condition(**data) / ReplaceCondition(**data): required fields, operator literal.
Condition(data, fl) ==
    IF ~(Has(data, "column_name") /\ Has(data, "operator") /\ Has(data, "comparison_value"))
    THEN Err("field required")
    ELSE IF data["operator"] \notin Operators
    THEN Err("operator literal")
    ELSE LET base == [column_name |-> data["column_name"],
                      operator |-> data["operator"],
                      comparison_value |-> ComparisonValue(data["comparison_value"])]
         IN Ok(IF fl = "replace" THEN Put(base, "function", Get(data, "function")) ELSE base)

\* Python truthiness of an Optional[List]: None and [] are falsy.
Falsy(branch) == IsNone(branch) \/ branch[1] = <<>>

\* LogicalExpression.validate_structure: raises only when both branches are falsy.
validate_structure(self) == ~(Falsy(self["and_"]) /\ Falsy(self["or_"]))

RECURSIVE LogicalExpression(_, _)
\* An element of a branch list: Union[LogicalExpression, Condition].
Member(data, fl) ==
    IF Has(data, "column_name") THEN Condition(data, fl) ELSE LogicalExpression(data, fl)

\* A list of validated elements, or the first failure.
Collect(items) ==
    IF \E i \in DOMAIN items : ~items[i].ok
    THEN Err("invalid member")
    ELSE Ok([i \in DOMAIN items |-> items[i].obj])

SomeList(c) == IF c.ok THEN Ok(Some(c.obj)) ELSE c

OptionalList(given, fl) ==
    IF IsNone(given) THEN Ok(None)
    ELSE SomeList(Collect([i \in DOMAIN given[1] |-> Member(given[1][i], fl)]))

\* One Optional[List[...]] field: absent or null gives None, a list is validated
\* element by element.
Branch(data, key, fl) == OptionalList(Get(data, key), fl)

\* result_value is a field of the replace flavor only
WithResultValue(self, data, fl) ==
    IF fl = "replace"
    THEN Put(self, "result_value", ComparisonValue(data["result_value"]))
    ELSE self

\* self.validate_structure() at the end of __init__
Checked(self) ==
    IF validate_structure(self) THEN Ok(self)
    ELSE Err("Either 'and' or 'or' must be present in LogicalExpression.")

FromBranches(data, fl, a, o) ==
    IF ~a.ok \/ ~o.ok THEN Err("invalid member")
    ELSE IF fl = "replace" /\ ~Has(data, "result_value") THEN Err("field required")
    ELSE Checked(WithResultValue([and_ |-> a.obj, or_ |-> o.obj], data, fl))

\* LogicalExpression(**data) / ReplaceLogicalExpression(**data):
\* super().__init__ validates the fields, then validate_structure runs.
LogicalExpression(data, fl) ==
    FromBranches(data, fl, Branch(data, "and", fl), Branch(data, "or", fl))

(***************************************************************************)
(* Inputs                                                                  *)
(***************************************************************************)

MaxDepth == 2

CondData == [column_name |-> "Country", operator |-> "equal to",
             comparison_value |-> ("input" :> Some("US"))]

ResultData == ("input" :> Some("0"))

\* What a caller may write for one branch: nothing, null, an empty list, or a
\* list of members.
BranchChoices(members) ==
    {[given |-> FALSE]}
        \cup {[given |-> TRUE, value |-> v] :
                 v \in {None, Some(<<>>)} \cup {Some(<<m>>) : m \in members}}

NodeOver(members, fl) ==
    LET mk(a, o) ==
            LET d1 == IF a.given THEN ("and" :> a.value) ELSE EmptyDict
                d2 == IF o.given THEN Put(d1, "or", o.value) ELSE d1
            IN IF fl = "replace" THEN Put(d2, "result_value", ResultData) ELSE d2
    IN {mk(a, o) : a \in BranchChoices(members), o \in BranchChoices(members)}

RECURSIVE RawNodes(_, _)
\* Keyword data for a logical expression of nesting depth at most d (d >= 1);
\* nested members are nodes that construct successfully, or conditions.
RawNodes(d, fl) ==
    IF d <= 1 THEN NodeOver({CondData}, fl)
    ELSE NodeOver({CondData} \cup {n \in RawNodes(d - 1, fl) : LogicalExpression(n, fl).ok}, fl)

(***************************************************************************)
(* SpecCtor: constructing LogicalExpression / ReplaceLogicalExpression     *)
(***************************************************************************)

InitCtor ==
    /\ flavor \in {"filter", "replace"}
    /\ raw \in RawNodes(MaxDepth, flavor)
    /\ built = None
    /\ toolArgs = None /\ stepOut = None
    /\ response_data = None /\ checkFlag = FALSE /\ returned = None
    /\ serverSteps = <<>> /\ pc = <<>> /\ op = <<>> /\ local = <<>> /\ wire = <<>>
    /\ result = <<>>

Construct ==
    /\ built = None
    /\ built' = Some(LogicalExpression(raw, flavor))
    /\ UNCHANGED <<raw, flavor, serVars, pivotVars, toolVars>>

NextCtor == Construct

SpecCtor == InitCtor /\ [][NextCtor]_vars

\* C1: constructing a LogicalExpression or ReplaceLogicalExpression succeeds only
\* when exactly one of `and` / `or` is supplied (non-null and non-empty): it
\* fails when neither is, and fails when both are.
Supplied(data, key) == Has(data, key) /\ ~Falsy(data[key])
C1_ExactlyOneBranchOrFail ==
    (built # None /\ built[1].ok) => (Supplied(raw, "and") # Supplied(raw, "or"))

(***************************************************************************)
(* model_dump(by_alias=True, exclude_none=False)                           *)
(***************************************************************************)

RECURSIVE DumpLogical(_)
\* A Condition dumps to a dict of its fields (None values kept); a logical
\* expression dumps under its aliases `and` / `or`, both keys always present.
DumpMember(obj) == IF Has(obj, "and_") THEN DumpLogical(obj) ELSE obj

DumpBranch(branch) ==
    IF IsNone(branch) THEN None
    ELSE Some([i \in DOMAIN branch[1] |-> DumpMember(branch[1][i])])

DumpResultValue(d, obj) ==
    IF Has(obj, "result_value") THEN Put(d, "result_value", obj["result_value"]) ELSE d

DumpLogical(obj) ==
    DumpResultValue(("and" :> DumpBranch(obj["and_"])) @@ ("or" :> DumpBranch(obj["or_"])), obj)

\* FilterAction(expression=expression)
Wrap(e) == IF e.ok THEN Ok([expression |-> e.obj]) ELSE e

FilterAction(expression) == Wrap(LogicalExpression(expression, "filter"))

\* ReplaceExpression(**data): else_ (no alias) and when are required.
WithElse(when, data) ==
    IF when.ok THEN Ok([else_ |-> ComparisonValue(data["else_"]), when |-> when.obj])
    ELSE when

ReplaceExpression(data) ==
    IF ~(Has(data, "else_") /\ Has(data, "when")) THEN Err("field required")
    ELSE WithElse(Collect([i \in DOMAIN data["when"] |->
                              LogicalExpression(data["when"][i], "replace")]), data)

\* ReplaceAction(expression=expression, replace_column=replace_column)
WrapReplace(e, replace_column) ==
    IF e.ok THEN Ok([expression |-> e.obj, replace_column |-> replace_column]) ELSE e

ReplaceAction(expression, replace_column) ==
    WrapReplace(ReplaceExpression(expression), replace_column)

DumpFilterAction(filter_obj) == ("expression" :> DumpLogical(filter_obj.expression))

DumpReplaceAction(replace_obj) ==
    ("expression" :>
        (("else_" :> replace_obj.expression.else_) @@
         ("when" :> [i \in DOMAIN replace_obj.expression.when |->
                        DumpLogical(replace_obj.expression.when[i])])))
    @@ ("replace_column" :> replace_obj.replace_column)

(***************************************************************************)
(* tools.py: building the step object                                      *)
(***************************************************************************)

\* if node["and"] is None: del node["and"]  else: del node["or"]
DropOneBranch(node) == IF IsNone(node["and"]) THEN Del(node, "and") ELSE Del(node, "or")

\* add_filter_action_tool, up to filter_data["action"] = "filter"
FilterFix(filter_data) ==
    Put(Put(filter_data, "expression", DropOneBranch(filter_data["expression"])),
        "action", "filter")

FilterData(filter_obj) == FilterFix(DumpFilterAction(filter_obj))

\* lines 193-194: expression["else"] = expression["else_"]; del expression["else_"]
RenameElse(e) == Del(Put(e, "else", e["else_"]), "else_")

\* lines 195-196: the column moves from the step into its expression
HoistColumn(replace_data, replace_column) ==
    Del(Put(replace_data, "expression",
            Put(replace_data["expression"], "replace_column", replace_column)),
        "replace_column")

\* lines 199-203: each `when` entry keeps one branch key
FixWhen(e) == Put(e, "when", [i \in DOMAIN e["when"] |-> DropOneBranch(e["when"][i])])

RenameElseIn(replace_data) ==
    Put(replace_data, "expression", RenameElse(replace_data["expression"]))

FixWhenIn(replace_data) ==
    Put(replace_data, "expression", FixWhen(replace_data["expression"]))

\* variant: lines 195-196 left out
ReplaceData_KeepTopLevel(replace_obj, replace_column) ==
    Put(FixWhenIn(RenameElseIn(DumpReplaceAction(replace_obj))), "action", "replace")

\* add_replace_action_tool, up to replace_data["action"] = "replace"
ReplaceData(replace_obj, replace_column) ==
    Put(FixWhenIn(HoistColumn(RenameElseIn(DumpReplaceAction(replace_obj)), replace_column)),
        "action", "replace")

\* The step object of an append operation, or the exception raised on the way.
FilterStepOf(f) == IF f.ok THEN Ok(FilterData(f.obj)) ELSE f

FilterStep(expression) == FilterStepOf(FilterAction(expression))

ReplaceStepOf(r, replace_column) == IF r.ok THEN Ok(ReplaceData(r.obj, replace_column)) ELSE r

ReplaceStep(expression, replace_column) ==
    ReplaceStepOf(ReplaceAction(expression, replace_column), replace_column)

NewStep(args) ==
    IF args.tool = "filter" THEN FilterStep(args.expression)
    ELSE ReplaceStep(args.expression, args.replace_column)

(***************************************************************************)
(* SpecSer: the step objects built from bounded tool arguments             *)
(***************************************************************************)

MaxWhen == 2

RECURSIVE SeqsUpTo(_, _)
SeqsUpTo(S, n) ==
    IF n = 0 THEN {<<>>}
    ELSE LET shorter == SeqsUpTo(S, n - 1)
         IN shorter \cup {Append(q, x) : q \in {r \in shorter : Len(r) = n - 1}, x \in S}

\* `when` lists: up to MaxWhen entries without nesting, or one entry of any
\* depth up to MaxDepth.
WhenLists ==
    SeqsUpTo(NodeOver({CondData}, "replace"), MaxWhen)
        \cup {<<n>> : n \in RawNodes(MaxDepth, "replace")}

ElseData == ("column_name" :> Some("AUM"))

FilterArgs == {[tool |-> "filter", expression |-> e] : e \in RawNodes(MaxDepth, "filter")}

ReplaceArgs ==
    {[tool |-> "replace", expression |-> [else_ |-> ElseData, when |-> w], replace_column |-> c] :
        w \in WhenLists, c \in {"AUM", "Country"}}

InitSer ==
    /\ toolArgs \in {Some(a) : a \in FilterArgs \cup ReplaceArgs}
    /\ stepOut = None
    /\ raw = None /\ flavor = "filter" /\ built = None
    /\ response_data = None /\ checkFlag = FALSE /\ returned = None
    /\ serverSteps = <<>> /\ pc = <<>> /\ op = <<>> /\ local = <<>> /\ wire = <<>>
    /\ result = <<>>

BuildFilterStep ==
    /\ stepOut = None
    /\ toolArgs[1].tool = "filter"
    /\ stepOut' = Some(FilterStep(toolArgs[1].expression))
    /\ UNCHANGED <<toolArgs, ctorVars, pivotVars, toolVars>>

BuildReplaceStep ==
    /\ stepOut = None
    /\ toolArgs[1].tool = "replace"
    /\ stepOut' = Some(ReplaceStep(toolArgs[1].expression, toolArgs[1].replace_column))
    /\ UNCHANGED <<toolArgs, ctorVars, pivotVars, toolVars>>

NextSer == BuildFilterStep \/ BuildReplaceStep

SpecSer == InitSer /\ [][NextSer]_vars

RECURSIVE OneBranchKey(_)
\* A serialized logical-expression node has exactly one of the keys and / or,
\* that key's value is not null, and the same holds of every nested node.
OneBranchKey(node) ==
    /\ Has(node, "and") # Has(node, "or")
    /\ \A k \in {"and", "or"} \cap DOMAIN node :
          /\ ~IsNone(node[k])
          /\ \A i \in DOMAIN node[k][1] :
                Has(node[k][1][i], "column_name") \/ OneBranchKey(node[k][1][i])

StepNodes(step) ==
    IF step["action"] = "filter" THEN {step["expression"]}
    ELSE {step["expression"]["when"][i] : i \in DOMAIN step["expression"]["when"]}

\* C2: in every step object built by add_filter_action_tool or
\* add_replace_action_tool, every logical-expression node, nested ones
\* included, carries exactly one of the keys and / or, never a null one.
C2_OneBranchKeyEverywhere ==
    (stepOut # None /\ stepOut[1].ok) => \A n \in StepNodes(stepOut[1].obj) : OneBranchKey(n)

\* C10: a replace step has replace_column inside expression, equal to the
\* requested column, none at the top level; the fallback is under `else`, no
\* `else_` key remains; the step's action is "replace".
C10_ReplaceStepShape ==
    (stepOut # None /\ stepOut[1].ok /\ toolArgs[1].tool = "replace") =>
        LET step == stepOut[1].obj
        IN /\ Has(step["expression"], "replace_column")
           /\ step["expression"]["replace_column"] = toolArgs[1].replace_column
           /\ ~Has(step, "replace_column")
           /\ Has(step["expression"], "else")
           /\ step["expression"]["else"] = ComparisonValue(toolArgs[1].expression.else_)
           /\ ~Has(step["expression"], "else_")
           /\ step["action"] = "replace"

C10_Witness ==
    /\ stepOut # None /\ stepOut[1].ok /\ toolArgs[1].tool = "replace"
    /\ Len(toolArgs[1].expression.when) >= 1
    /\ toolArgs[1].replace_column = "AUM"

(***************************************************************************)
(* tools.py: change_response_data                                          *)
(*                                                                         *)
(* A JSON value of a step's error field is [type |-> "null"],              *)
(* [type |-> "str", chars |-> <<...>>], [type |-> "int", n |-> ...] or     *)
(* [type |-> "bool", b |-> ...].  A row is a JSON object: a sequence of    *)
(* <<key, value>> pairs with distinct keys, in document order.             *)
(***************************************************************************)

JNull == [type |-> "null"]
JStr(chars) == [type |-> "str", chars |-> chars]
JInt(n) == [type |-> "int", n |-> n]
JBool(b) == [type |-> "bool", b |-> b]

\* Python truthiness of a JSON value
Truthy(v) ==
    CASE v.type = "null" -> FALSE
      [] v.type = "str" -> v.chars # <<>>
      [] v.type = "int" -> v.n # 0
      [] v.type = "bool" -> v.b

Digit(n) == <<"0", "1", "2", "3", "4", "5", "6", "7", "8", "9">>[n + 1]

\* str(v) as an f-string formats it (integers 0..9 suffice here)
Str(v) ==
    CASE v.type = "null" -> <<"N", "o", "n", "e">>
      [] v.type = "str" -> v.chars
      [] v.type = "int" -> <<Digit(v.n)>>
      [] v.type = "bool" -> IF v.b THEN <<"T", "r", "u", "e">> ELSE <<"F", "a", "l", "s", "e">>

ErrorPrefix ==
    <<"E", "r", "r", "o", "r", " ", "i", "n", " ", "t", "h", "e", " ",
      "l", "a", "s", "t", " ", "s", "t", "e", "p", ":", " ">>

\* row[key] and `key in row` on a row
RowHas(row, key) == \E j \in DOMAIN row : row[j][1] = key
RowGet(row, key) == row[CHOOSE j \in DOMAIN row : row[j][1] = key][2]
RowKeys(row) == {row[j][1] : j \in DOMAIN row}
RowValues(row) == {row[j][2] : j \in DOMAIN row}

\* variant: the loop breaks one row later
LastIndex_OffByOne == 2 + 1

\* `if index > 2: break`
LastIndex == 2

RECURSIVE AppendRow(_, _, _, _)
\* for key, value in row.items(): altered[column_row[key]].append(value)
\* (a key the first row lacks raises KeyError)
AppendRow(altered, row, column_row, j) ==
    IF j > Len(row) THEN Ok(altered)
    ELSE IF ~RowHas(column_row, row[j][1]) THEN Err("KeyError")
    ELSE AppendRow([altered EXCEPT ![RowGet(column_row, row[j][1])] = Append(@, row[j][2])],
                   row, column_row, j + 1)

RECURSIVE PivotRows(_, _, _, _)
RECURSIVE AfterRow(_, _, _, _)
\* for row in transformation_data: ...; index += 1; if index > 2: break
\* (i is the 1-based position of the row about to be read, index = i - 1)
PivotRows(altered, transformation_data, column_row, i) ==
    IF i > Len(transformation_data) THEN Ok(altered)
    ELSE AfterRow(AppendRow(altered, transformation_data[i], column_row, 1),
                  transformation_data, column_row, i)

AfterRow(r, transformation_data, column_row, i) ==
    IF ~r.ok THEN r
    ELSE IF i > LastIndex THEN r
    ELSE PivotRows(r.obj, transformation_data, column_row, i + 1)

\* lines 102-117: the column-oriented sample
Pivot(transformation_data) ==
    IF Len(transformation_data) # 0
    THEN LET column_row == transformation_data[1]
         IN PivotRows([c \in RowValues(column_row) |-> <<>>], transformation_data, column_row, 1)
    ELSE Ok(EmptyDict)

\* variant: an `is not None` test in place of the truth test
ErrorPresent_NotNone(err) == err.type # "null"

\* the truth test of `steps[-1]["error"]` on line 124
ErrorPresent(err) == Truthy(err)

\* lines 123-128: the optional `error` key
WithLastStepError(with_steps, check_last_step_for_error) ==
    IF check_last_step_for_error /\ Len(with_steps.steps) > 0
    THEN IF ~Has(with_steps.steps[Len(with_steps.steps)], "error") THEN Err("KeyError")
         ELSE IF ErrorPresent(with_steps.steps[Len(with_steps.steps)]["error"])
         THEN Ok(Put(with_steps, "error",
                     ErrorPrefix \o Str(with_steps.steps[Len(with_steps.steps)]["error"])))
         ELSE Ok(with_steps)
    ELSE Ok(with_steps)

\* lines 119-122: {"data": ..., "steps": response_data["steps"]}
WithSteps(p, resp, check_last_step_for_error) ==
    IF ~p.ok THEN p
    ELSE IF ~Has(resp, "steps") THEN Err("KeyError")
    ELSE WithLastStepError([data |-> p.obj, steps |-> resp["steps"]],
                           check_last_step_for_error)

change_response_data(resp, check_last_step_for_error) ==
    IF ~Has(resp, "data") THEN Err("KeyError")
    ELSE WithSteps(Pivot(resp["data"]), resp, check_last_step_for_error)

(***************************************************************************)
(* SpecPivot: change_response_data on bounded backend responses            *)
(***************************************************************************)

MaxRows == 4
MaxRespSteps == 2

ColumnIds == {"c1", "c2"}
CellValues == {"x", "y"}

\* rows over the column ids, keys in ascending order
RowChoices ==
    {<<>>} \cup {<<<<k, v>>>> : k \in ColumnIds, v \in CellValues}
           \cup {<<<<"c1", v>>, <<"c2", w>>>> : v \in CellValues, w \in CellValues}

ErrorChoices == {JNull, JStr(<<>>), JStr(<<"b", "a", "d">>), JInt(0), JInt(7),
                 JBool(FALSE), JBool(TRUE)}

StepChoices ==
    {[action |-> "filter", error |-> e] : e \in ErrorChoices} \cup {[action |-> "filter"]}

SampleData == << <<<<"c1", "x">>, <<"c2", "y">>>>, <<<<"c1", "y">>, <<"c2", "y">>>> >>

Responses ==
    {[data |-> d, steps |-> <<>>] : d \in SeqsUpTo(RowChoices, MaxRows)}
        \cup {[data |-> SampleData, steps |-> q] : q \in SeqsUpTo(StepChoices, MaxRespSteps)}
        \cup {[data |-> SampleData], [steps |-> <<>>]}

InitPivot ==
    /\ response_data \in {Some(r) : r \in Responses}
    /\ checkFlag \in BOOLEAN
    /\ returned = None
    /\ raw = None /\ flavor = "filter" /\ built = None
    /\ toolArgs = None /\ stepOut = None
    /\ serverSteps = <<>> /\ pc = <<>> /\ op = <<>> /\ local = <<>> /\ wire = <<>>
    /\ result = <<>>

ChangeResponseData ==
    /\ returned = None
    /\ returned' = Some(change_response_data(response_data[1], checkFlag))
    /\ UNCHANGED <<response_data, checkFlag, ctorVars, serVars, toolVars>>

NextPivot == ChangeResponseData

SpecPivot == InitPivot /\ [][NextPivot]_vars

Contains(s, m) == \E i \in 1..(Len(s) - Len(m) + 1) : SubSeq(s, i, i + Len(m) - 1) = m

LastStep == response_data[1]["steps"][Len(response_data[1]["steps"])]

CheckedLastStep ==
    /\ checkFlag
    /\ Len(response_data[1]["steps"]) > 0

\* C8 as stated: with the check requested, every non-null error of the last
\* step yields an `error` key containing the message; a null error, an empty
\* step list or no check yields no `error` key.
C8_ErrorKeyIffNonNull ==
    (returned # None /\ returned[1].ok) =>
        LET out == returned[1].obj
        IN /\ Has(out, "error") <=> (CheckedLastStep /\ LastStep["error"] # JNull)
           /\ Has(out, "error") => Contains(out["error"], Str(LastStep["error"]))

\* C8 amended: with the check requested, the `error` key is added exactly when
\* the last step's error is truthy (not null, not "", not 0, not false), and
\* then it is "Error in the last step: " followed by the message; with a null
\* or other falsy error, an empty step list, or no check, there is no key.
C8_ErrorKeyIffTruthy ==
    /\ (returned # None /\ returned[1].ok) =>
        LET out == returned[1].obj
        IN /\ Has(out, "error") <=> (CheckedLastStep /\ Truthy(LastStep["error"]))
           /\ Has(out, "error") =>
                /\ out["error"] = ErrorPrefix \o Str(LastStep["error"])
                /\ Contains(out["error"], Str(LastStep["error"]))
    /\ (returned # None /\ Has(response_data[1], "data") /\ Has(response_data[1], "steps")
          /\ response_data[1]["data"] = SampleData
          /\ CheckedLastStep /\ Has(LastStep, "error"))
        => returned[1].ok

C8_Witness ==
    /\ returned # None /\ returned[1].ok
    /\ CheckedLastStep
    /\ LastStep["error"] = JStr(<<"b", "a", "d">>)
    /\ Has(returned[1].obj, "error")

Min(a, b) == IF a < b THEN a ELSE b

RowsRead == 1..Min(3, Len(response_data[1]["data"]))

\* The sample holds, for every <<column id, column name>> of the first row, the
\* values of that column id in the rows read, in row order, and no other key.
PivotedRight(out) ==
    LET data == response_data[1]["data"]
        column_row == data[1]
    IN /\ DOMAIN out = RowValues(column_row)
       /\ \A j \in DOMAIN column_row :
             /\ \A i \in RowsRead : RowHas(data[i], column_row[j][1])
             /\ out[column_row[j][2]] = [i \in RowsRead |-> RowGet(data[i], column_row[j][1])]
       /\ Len(data) > 3 => \A c \in DOMAIN out : Len(out[c]) = 3

\* change_response_data was applied to a response with both keys, a non-empty
\* row list and, where the last step is checked, an error field on that step.
NonEmptyData ==
    /\ returned # None
    /\ Has(response_data[1], "data") /\ Has(response_data[1], "steps")
    /\ Len(response_data[1]["data"]) > 0
    /\ CheckedLastStep => Has(LastStep, "error")

\* C9 as stated: for any non-empty list of rows the sample holds, per column
\* name of the first row, that column's values of the first min(3, n) rows in
\* row order and nothing else; exactly 3 values per column when n > 3.
C9_PivotAnyRows ==
    NonEmptyData => (returned[1].ok /\ PivotedRight(returned[1].obj["data"]))

\* Every row read has exactly the first row's keys, and the first row names
\* each column differently.
UniformRows ==
    LET data == response_data[1]["data"]
    IN /\ \A i \in RowsRead : RowKeys(data[i]) = RowKeys(data[1])
       /\ \A j, k \in DOMAIN data[1] : data[1][j][2] = data[1][k][2] => j = k

\* C9 amended: the same, for a well-formed response whose first min(3, n) rows
\* each have exactly the keys of the first row and whose first row's values
\* (the column names) are pairwise distinct.
C9_PivotUniformRows ==
    (NonEmptyData /\ UniformRows) => (returned[1].ok /\ PivotedRight(returned[1].obj["data"]))

C9_Witness ==
    /\ NonEmptyData /\ UniformRows
    /\ Len(response_data[1]["data"]) > 3
    /\ Len(response_data[1]["data"][1]) = 2
    /\ returned[1].ok
    /\ response_data[1]["data"][2] # response_data[1]["data"][3]

(***************************************************************************)
(* The backend, as tools.py consumes it                                    *)
(*                                                                         *)
(* An HTTP exchange ends in a transport exception or in a response with a  *)
(* status code and a body; a body that is not the documented object is the *)
(* empty object here.  The backend replaces its step list by the PUT body  *)
(* exactly when it answers 201.  Responses list the steps with a per-step  *)
(* `error` field.                                                          *)
(***************************************************************************)

Annotate(steps, lastError) ==
    [i \in DOMAIN steps |->
        Put(steps[i], "error", IF i = Len(steps) THEN lastError ELSE JNull)]

Exchange(status, body) == [kind |-> "response", status |-> status, body |-> body]
TransportError == [kind |-> "exception"]

\* requests.get(...): what may come back while the backend holds `steps`
GetExchanges(steps) ==
    {TransportError,
     Exchange(500, EmptyDict),
     Exchange(200, EmptyDict),
     Exchange(200, [data |-> SampleData, steps |-> Annotate(steps, JNull)])}

\* requests.put(..., json={"steps": body}): what may come back
PutExchanges(body) ==
    {TransportError,
     Exchange(500, EmptyDict),
     Exchange(201, EmptyDict)}
        \cup {Exchange(201, [data |-> SampleData, steps |-> Annotate(body, e)]) :
                e \in {JNull, JStr(<<"b", "a", "d">>)}}

(***************************************************************************)
(* tools.py: the four tool operations                                      *)
(***************************************************************************)

\* How an operation ends: a returned dict, a returned failure string, or an
\* exception propagated to the caller.
Dict(d) == [kind |-> "dict", value |-> d]
Text(prefix, detail) == [kind |-> "text", prefix |-> prefix, detail |-> detail]
Raised(e) == [kind |-> "raised", exc |-> e]

\* get_transformation_data(): `raise e` in its handler re-raises everything.
\* variant: a failed fetch taken for an empty step list
Subscript_EmptyOnFailure(g) ==
    IF g.kind = "dict" THEN Ok(g.value["steps"]) ELSE Ok(<<>>)

DictOrRaise(r) == IF r.ok THEN Dict(r.obj) ELSE Raised(r.error)

get_transformation_data(x) ==
    IF x.kind = "exception" THEN Raised("transport")
    ELSE IF x.status = 200
    THEN DictOrRaise(change_response_data(x.body, FALSE))
    ELSE Text("Failed to get transformation data for some reason", "")

\* g["steps"]: a key of the dict; TypeError on the failure string; nothing
\* when the call raised.
Subscript(g) ==
    IF g.kind = "dict" THEN Ok(g.value["steps"])
    ELSE IF g.kind = "text" THEN Err("TypeError")
    ELSE Err(g.exc)

\* get_transformation_data.invoke(input=None)["steps"]
FetchSteps(x) == Subscript(get_transformation_data(x))

\* The except clause of each operation: remove_last_step and
\* add_filter_action_tool return a string, get_transformation_data and
\* add_replace_action_tool re-raise.
Caught(name, e) ==
    CASE name = "remove_last_step" -> Text("Failed to remove the last step: ", e)
      [] name = "add_filter_action_tool" -> Text("Failed to add data: ", e)
      [] name = "add_replace_action_tool" -> Raised(e)
      [] name = "get_transformation_data" -> Raised(e)

\* The string returned on a PUT status other than 201
PutRefused(name, status) ==
    IF name = "remove_last_step" THEN Text("Failed to remove the last step: ", status)
    ELSE Text("Failed to get transformation data for some reason: ", status)

RECURSIVE Pops(_, _)
\* for _ in range(k): transformation_steps.pop()
Pops(steps, k) ==
    IF k <= 0 THEN Ok(steps)
    ELSE IF steps = <<>> THEN Err("IndexError")
    ELSE Pops(SubSeq(steps, 1, Len(steps) - 1), k - 1)

\* remove_last_step, lines 69-73
RemoveBody(transformation_steps, number_of_steps) ==
    LET n == IF Len(transformation_steps) > number_of_steps
             THEN Len(transformation_steps) ELSE number_of_steps
    IN Pops(transformation_steps, n)

\* variant: the append left out
AppendBody_Forgotten(transformation_steps, step) == transformation_steps

\* transformation_steps.append(step); put_request_data = {"steps": transformation_steps}
AppendBody(transformation_steps, step) == Append(transformation_steps, step)

\* variant: success tested against 200
PutSucceeded_200(status) == status = 200

\* `if response.status_code == 201`
PutSucceeded(status) == status = 201

(***************************************************************************)
(* Spec: one caller running tool operations one after another.             *)
(* SpecRace: two callers appending against the same transformation.        *)
(***************************************************************************)

MaxSteps == 2
MaxRemove == 3

AllCallers == {"a", "b"}

SimpleFilter == ("and" :> Some(<<CondData>>))
NestedFilter == ("or" :> Some(<<("and" :> Some(<<CondData>>))>>))
SimpleReplace == [else_ |-> ElseData,
                  when |-> <<("and" :> Some(<<CondData>>)) @@ ("result_value" :> ResultData)>>]
EmptyWhenEntry == [else_ |-> ElseData, when |-> <<("result_value" :> ResultData)>>]

FilterCalls ==
    {[name |-> "add_filter_action_tool", args |-> [tool |-> "filter", expression |-> e]] :
        e \in {SimpleFilter, NestedFilter, EmptyDict}}

ReplaceCalls ==
    {[name |-> "add_replace_action_tool",
      args |-> [tool |-> "replace", expression |-> e, replace_column |-> "AUM"]] :
        e \in {SimpleReplace, EmptyWhenEntry}}

RemoveCalls ==
    {[name |-> "remove_last_step", number_of_steps |-> n] : n \in (-1)..MaxRemove}

FetchCalls == {[name |-> "get_transformation_data"]}

IsAppend(o) == o.name \in {"add_filter_action_tool", "add_replace_action_tool"}

NoLocal == [fetched |-> None, step |-> None, body |-> None, put |-> None]

Init ==
    /\ serverSteps = <<>>
    /\ pc = [p \in AllCallers |-> "idle"]
    /\ op = [p \in AllCallers |-> None]
    /\ local = [p \in AllCallers |-> NoLocal]
    /\ wire = <<>>
    /\ result = [p \in AllCallers |-> None]
    /\ raw = None /\ flavor = "filter" /\ built = None
    /\ toolArgs = None /\ stepOut = None
    /\ response_data = None /\ checkFlag = FALSE /\ returned = None

Finish(p, r) ==
    /\ pc' = [pc EXCEPT ![p] = "done"]
    /\ result' = [result EXCEPT ![p] = Some(r)]

\* An append operation has built its step object, or raised on the way.
Built(p, o, s) ==
    IF s.ok
    THEN /\ local' = [local EXCEPT ![p].step = Some(s.obj)]
         /\ pc' = [pc EXCEPT ![p] = "get"]
         /\ UNCHANGED result
    ELSE /\ Finish(p, Caught(o.name, s.error))
         /\ UNCHANGED local

\* The operation is entered; an append operation builds its step object first
\* (lines 145-151, 189-204), and ends at once if that raises.
Call(p, o) ==
    /\ pc[p] = "idle"
    /\ op' = [op EXCEPT ![p] = Some(o)]
    /\ IF IsAppend(o)
       THEN Built(p, o, NewStep(o.args))
       ELSE /\ pc' = [pc EXCEPT ![p] = "get"]
            /\ UNCHANGED <<local, result>>
    /\ UNCHANGED <<serverSteps, wire, ctorVars, serVars, pivotVars>>

\* remove_last_step after its fetch: the pops, then on to the PUT.
Popped(p, o, fetched, b) ==
    IF b.ok
    THEN /\ local' = [local EXCEPT ![p].fetched = Some(fetched), ![p].body = Some(b.obj)]
         /\ pc' = [pc EXCEPT ![p] = "put"]
         /\ UNCHANGED result
    ELSE /\ local' = [local EXCEPT ![p].fetched = Some(fetched)]
         /\ Finish(p, Caught(o.name, b.error))

\* What follows `get_transformation_data.invoke(input=None)["steps"]` in
\* remove_last_step and in the append operations.
Fetched(p, o, f) ==
    \/ /\ ~f.ok
       /\ Finish(p, Caught(o.name, f.error))
       /\ UNCHANGED local
    \/ /\ f.ok
       /\ o.name = "remove_last_step"
       /\ Popped(p, o, f.obj, RemoveBody(f.obj, o.number_of_steps))
    \/ /\ f.ok
       /\ IsAppend(o)
       /\ Len(f.obj) < MaxSteps
       /\ local' = [local EXCEPT ![p].fetched = Some(f.obj),
                                 ![p].body = Some(AppendBody(f.obj, local[p].step[1]))]
       /\ pc' = [pc EXCEPT ![p] = "put"]
       /\ UNCHANGED result

\* The GET of the operation and everything up to its PUT.
GetStep(p, x) ==
    /\ pc[p] = "get"
    /\ IF op[p][1].name = "get_transformation_data"
       THEN /\ Finish(p, get_transformation_data(x))
            /\ UNCHANGED local
       ELSE Fetched(p, op[p][1], FetchSteps(x))
    /\ wire' = Append(wire, <<p, "GET">>)
    /\ UNCHANGED <<serverSteps, op, ctorVars, serVars, pivotVars>>

\* `return change_response_data(...)` inside the try block
ReturnOrCaught(name, r) == IF r.ok THEN Dict(r.obj) ELSE Caught(name, r.error)

\* The PUT of the operation and everything after it.
PutStep(p, x) ==
    /\ pc[p] = "put"
    /\ serverSteps' = IF x.kind = "response" /\ x.status = 201
                      THEN local[p].body[1] ELSE serverSteps
    /\ local' = [local EXCEPT ![p].put = Some(x)]
    /\ IF x.kind = "exception" THEN Finish(p, Caught(op[p][1].name, "transport"))
       ELSE IF PutSucceeded(x.status)
       THEN Finish(p, ReturnOrCaught(op[p][1].name, change_response_data(x.body, TRUE)))
       ELSE Finish(p, PutRefused(op[p][1].name, x.status))
    /\ wire' = Append(wire, <<p, "PUT">>)
    /\ UNCHANGED <<op, ctorVars, serVars, pivotVars>>

\* The operation's outcome is handed to the driver; the caller is free again.
Return(p) ==
    /\ pc[p] = "done"
    /\ pc' = [pc EXCEPT ![p] = "idle"]
    /\ op' = [op EXCEPT ![p] = None]
    /\ local' = [local EXCEPT ![p] = NoLocal]
    /\ result' = [result EXCEPT ![p] = None]
    /\ wire' = SelectSeq(wire, LAMBDA e : e[1] # p)
    /\ UNCHANGED <<serverSteps, ctorVars, serVars, pivotVars>>

GetAny(p) == \E x \in GetExchanges(serverSteps) : GetStep(p, x)
PutAny(p) == pc[p] = "put" /\ \E x \in PutExchanges(local[p].body[1]) : PutStep(p, x)

Next ==
    \/ \E o \in FetchCalls \cup RemoveCalls \cup FilterCalls \cup ReplaceCalls : Call("a", o)
    \/ GetAny("a")
    \/ PutAny("a")
    \/ Return("a")

Spec == Init /\ [][Next]_vars

\* Two callers, each running append operations on the same transformation.
NextRace ==
    \E p \in AllCallers :
        \/ \E o \in FilterCalls \cup ReplaceCalls : Call(p, o)
        \/ GetAny(p)
        \/ PutAny(p)
        \/ Return(p)

SpecRace == Init /\ [][NextRace]_vars

IsRemove(p) == op[p] # None /\ op[p][1].name = "remove_last_step"
Appending(p) == op[p] # None /\ IsAppend(op[p][1])
HasFetched(p) == local[p].fetched # None
FetchedSteps(p) == local[p].fetched[1]
Requested(p) == op[p][1].number_of_steps

\* the PUT was answered 201 with the documented body
Accepted(p) ==
    /\ local[p].put # None
    /\ local[p].put[1].kind = "response"
    /\ local[p].put[1].status = 201
    /\ local[p].put[1].body # EmptyDict

\* C3: remove_last_step(N) on a fetched list of length L, 0 <= N <= L, PUTs
\* exactly the first L - N fetched steps in their order.
C3_RemovesTrailingN ==
    \A p \in AllCallers :
        (IsRemove(p) /\ HasFetched(p) /\ 0 <= Requested(p)
            /\ Requested(p) <= Len(FetchedSteps(p)))
        => /\ local[p].body # None
           /\ local[p].body[1] =
                SubSeq(FetchedSteps(p), 1, Len(FetchedSteps(p)) - Requested(p))

\* C4: remove_last_step(N) with N greater than the number L of fetched steps
\* PUTs an empty step list and does not end in a failure for the excess.
C4_ExcessRemovesAll ==
    \A p \in AllCallers :
        (IsRemove(p) /\ HasFetched(p) /\ Requested(p) > Len(FetchedSteps(p)))
        => /\ local[p].body = Some(<<>>)
           /\ pc[p] = "done" => local[p].put # None

\* C5: an append operation whose fetch succeeded PUTs the fetched list, as
\* fetched, followed by the one new step, tagged "filter" or "replace"; from an
\* empty list and an accepted PUT the backend holds exactly that step.
C5_AppendsOneStep ==
    \A p \in AllCallers :
        (Appending(p) /\ HasFetched(p)) =>
            LET step == NewStep(op[p][1].args).obj
            IN /\ local[p].body # None
               /\ Len(local[p].body[1]) = Len(FetchedSteps(p)) + 1
               /\ SubSeq(local[p].body[1], 1, Len(FetchedSteps(p))) = FetchedSteps(p)
               /\ local[p].body[1][Len(local[p].body[1])] = step
               /\ step["action"] = op[p][1].args.tool
               /\ (pc[p] = "done" /\ Accepted(p) /\ FetchedSteps(p) = <<>>)
                    => serverSteps = <<step>>

C5_Witness ==
    /\ pc["a"] = "done" /\ Appending("a") /\ Accepted("a")
    /\ Len(FetchedSteps("a")) = 1
    /\ Len(serverSteps) = 2
    /\ serverSteps[2]["action"] = "replace"

\* C6: no tool operation propagates an exception: every failure ends in a
\* returned failure string.
C6_NoExceptionEscapes ==
    \A p \in AllCallers : result[p] # None => result[p][1].kind # "raised"

Pos(p, method) == CHOOSE i \in DOMAIN wire : wire[i] = <<p, method>>

\* Both callers fetched before either PUT, both PUTs were accepted, and q's
\* PUT came last.
LostUpdateRun(p, q) ==
    /\ p # q
    /\ pc[p] = "done" /\ pc[q] = "done"
    /\ Appending(p) /\ Appending(q)
    /\ Accepted(p) /\ Accepted(q)
    /\ Pos(p, "GET") < Pos(p, "PUT") /\ Pos(q, "GET") < Pos(p, "PUT")
    /\ Pos(p, "PUT") < Pos(q, "PUT")

\* C7: when two appends interleave so that both fetch before either PUTs and
\* both PUTs are accepted, both callers get a success result (the earlier one
\* is shown its own list), and the backend ends up holding the later PUT's
\* list: what the later caller fetched plus its step only. Where both fetched
\* the same list, one new step is held instead of two: the earlier caller's
\* step is lost.
C7_LostUpdate ==
    \A p, q \in AllCallers :
        LostUpdateRun(p, q) =>
            /\ result[p][1].kind = "dict" /\ result[q][1].kind = "dict"
            /\ Len(result[p][1].value["steps"]) = Len(FetchedSteps(p)) + 1
            /\ serverSteps = Append(FetchedSteps(q), local[q].step[1])
            /\ FetchedSteps(p) = FetchedSteps(q)
                 => Len(serverSteps) = Len(FetchedSteps(p)) + 1

C7_Witness ==
    /\ LostUpdateRun("a", "b")
    /\ op["a"][1].name = "add_filter_action_tool"
    /\ op["b"][1].name = "add_replace_action_tool"
    /\ FetchedSteps("a") = FetchedSteps("b")
    /\ serverSteps[Len(serverSteps)]["action"] = "replace"
    /\ \A i \in DOMAIN serverSteps : serverSteps[i] # local["a"].step[1]

Mutating(o) == o.name = "remove_last_step" \/ IsAppend(o)

\* the GET did not deliver a step list: transport exception or non-200 status
GetFailed(x) == x.kind = "exception" \/ x.status # 200

\* A caller that is about to PUT, or has sent one, fetched a step list in this
\* operation first, and (for an append) built its step object.
PutOnlyAfterFetch ==
    \A p \in AllCallers :
        (op[p] # None /\ Mutating(op[p][1]) /\ (pc[p] = "put" \/ local[p].put # None))
        => /\ HasFetched(p)
           /\ IsAppend(op[p][1]) => (local[p].step # None /\ NewStep(op[p][1].args).ok)
           /\ \E i \in DOMAIN wire : wire[i] = <<p, "GET">>
           /\ local[p].put # None => Pos(p, "GET") < Pos(p, "PUT")

\* A step in which a mutating operation's GET fails, or in which an append
\* fails to build its step object, ends the operation with no PUT on the
\* wire and the backend's list as it was.
FailureSendsNoPut ==
    \A p \in AllCallers :
        /\ \A x \in GetExchanges(serverSteps) :
              (pc[p] = "get" /\ Mutating(op[p][1]) /\ GetFailed(x) /\ GetStep(p, x))
              => /\ pc'[p] = "done"
                 /\ local'[p].put = None /\ local'[p].body = None
                 /\ serverSteps' = serverSteps
                 /\ ~\E i \in DOMAIN wire' : wire'[i] = <<p, "PUT">>
        /\ \A o \in FilterCalls \cup ReplaceCalls :
              (~NewStep(o.args).ok /\ Call(p, o))
              => /\ pc'[p] = "done"
                 /\ local'[p].put = None /\ local'[p].body = None
                 /\ serverSteps' = serverSteps
                 /\ wire' = wire

\* The backend's list changes only in the PUT of a caller that had fetched.
OnlyPutChangesServer ==
    serverSteps' # serverSteps
    => \E p \in AllCallers :
          /\ pc[p] = "put" /\ HasFetched(p)
          /\ local[p].put = None /\ local'[p].put # None
          /\ serverSteps' = local[p].body[1]

\* C11: in remove_last_step, add_filter_action_tool and add_replace_action_tool
\* a PUT is issued only after a fetch of the same operation returned a step
\* list; when the GET fails (non-200 or transport exception) or the new step
\* cannot be built, no PUT is sent and the backend's step list is unchanged.
C11_NoPutWithoutFetch ==
    [][PutOnlyAfterFetch' /\ FailureSendsNoPut /\ OnlyPutChangesServer]_vars

C11_Witness ==
    /\ pc["a"] = "done"
    /\ op["a"][1].name = "remove_last_step"
    /\ ~HasFetched("a") /\ local["a"].put = None
    /\ wire = <<<<"a", "GET">>>>
    /\ result["a"][1].kind = "text"
    /\ Len(serverSteps) >= 1

====
